---- MODULE Spec2Model ----
(***************************************************************************)
(* Model of the versioned artifact store of FrameLeap                      *)
(* (frameleap/utils/artifact_store.py, frameleap/models/version.py).       *)
(*                                                                         *)
(* State: the node records and artifact bundles on disk, the project       *)
(* record on disk, the Project object held by one ArtifactStore handle,    *)
(* the outcome of the last call, and the position of a get_node_history    *)
(* walk.  Node ids and metadata ids are uuid4 values in the code; they are *)
(* modelled as fresh positive integers.  None and the empty string (both   *)
(* falsy in the code's tests) are modelled by NoId.  Fields that no        *)
(* operation reads (project_id, version, commit_message, the timestamps,   *)
(* the open metadata map, settings; file_size, summary, dependencies and    *)
(* created_at of ArtifactMetadata) are left out of the records.            *)
(***************************************************************************)
EXTENDS Integers, Sequences, FiniteSets, TLC

VARIABLES
    nodes,          \* nodes/{id}.json : node id -> node record
    artifacts,      \* artifacts/{artifact_id}/ : artifact id -> bundle
    project,        \* self.project of the handle
    project_file,   \* project.json
    meta_count,     \* number of ArtifactMetadata objects constructed so far
    last,           \* the last call: operation, arguments, outcome
    walk,           \* position of a running get_node_history call
    call,           \* position and locals of a call taken one step at a time
    other           \* self.project of a second handle on the same project

vars == <<nodes, artifacts, project, project_file, meta_count, last, walk,
          call, other>>

----------------------------------------------------------------------------
(* Bounds *)

MaxNodes == 2       \* node records created in one behaviour
MaxSaves == 2       \* save_artifact calls in one behaviour
CorruptNodes == 3   \* node records of a corrupted store
MaxWalk == 5        \* loop iterations of get_node_history that are followed
MaxCalls == 3       \* calls begun in one behaviour when taken step by step

----------------------------------------------------------------------------
(* Values *)

NoId == 0                   \* None, or "" for the project's id fields
GhostId == 99               \* an id that names no node record
NoArtifact == <<>>          \* artifact_path = None
NoPreview == "none"         \* preview_data = None / no preview.png
NoHash == "none"            \* input_hash = None

PENDING == "pending"
GENERATING == "generating"
COMPLETED == "completed"
FAILED == "failed"
CACHED == "cached"

ArtifactStatus == {PENDING, GENERATING, COMPLETED, FAILED, CACHED}

\* (stage, stage_index, input_hash) triples the callers pass to create_node
StageInputs == {<<"script", 1, "h1">>}
\* data values: a mapping is the sequence of its <<key, value>> pairs in
\* insertion order; a value is <<"int", n>> or <<"map", mapping>>
SceneAB == <<"map", << <<"a", <<"int", 1>> >>, <<"b", <<"int", 2>> >> >> >>
SceneBA == <<"map", << <<"b", <<"int", 2>> >>, <<"a", <<"int", 1>> >> >> >>
DataST == << <<"scene", SceneAB>>, <<"title", <<"int", 2>> >> >>
DataTS == << <<"title", <<"int", 2>> >>, <<"scene", SceneBA>> >>
DataT == << <<"title", <<"int", 3>> >> >>

\* (stage, artifact_type, data, preview_data) tuples the callers pass to
\* save_artifact: the first two carry the same mapping in two key orders
SaveInputs ==
    { <<"script", "script", DataST, NoPreview>>,
      <<"script", "script", DataTS, "png">>,
      <<"input", "script", DataT, NoPreview>> }
BranchNames == {"main", "alt"}
ProjectNames == {"Renamed"}

\* the order json.dumps(sort_keys=True) puts the keys in
SortedKeys == <<"a", "b", "scene", "title">>

KeyRank(k) == CHOOSE i \in 1..Len(SortedKeys) : SortedKeys[i] = k

----------------------------------------------------------------------------
(* Pure helpers *)

Range(s) == {s[i] : i \in 1..Len(s)}

RECURSIVE Reverse(_)
Reverse(s) == IF s = <<>> THEN <<>> ELSE Append(Reverse(Tail(s)), Head(s))

\* dict assignment d[k] = v
Put(d, k, v) == [x \in DOMAIN d \cup {k} |-> IF x = k THEN v ELSE d[x]]

\* faulty variant: the keys are left in insertion order
SortByKey_Unsorted(d) == d

\* json.dumps(data, sort_keys=True): the pairs ordered by key
RECURSIVE SortByKey(_)
SortByKey(d) ==
    IF d = <<>> THEN <<>>
    ELSE LET m == CHOOSE i \in 1..Len(d) :
                    \A j \in 1..Len(d) : KeyRank(d[i][1]) <= KeyRank(d[j][1])
             rest == [j \in 1..(Len(d) - 1) |-> IF j < m THEN d[j] ELSE d[j + 1]]
         IN  <<d[m]>> \o SortByKey(rest)

\* json.dumps(data, sort_keys=True) on nested mappings: every level sorted
RECURSIVE Canonical(_)
Canonical(d) ==
    SortByKey([i \in 1..Len(d) |->
                 <<d[i][1],
                   IF d[i][2][1] = "map"
                   THEN <<"map", Canonical(d[i][2][2])>>
                   ELSE d[i][2]>>])

\* sha256 of the canonical dump; sha256 is taken to be injective
compute_hash(data) == <<"sha256", Canonical(data)>>

\* faulty variant: one directory per call instead of one per content
ArtifactId_PerSave(stage, artifact_type, data) ==
    <<stage, artifact_type, <<"sha256", meta_count>> >>

\* f"{stage.value}_{artifact_type}_{content_hash[:16]}"
ArtifactId(stage, artifact_type, data) ==
    <<stage, artifact_type, compute_hash(data)>>

\* get_node: the record, or None when the file does not exist
NodeExists(ns, id) == id \in DOMAIN ns

\* faulty variant: an id that is already in use
NewNodeId_Reused(ns) == 1

\* uuid4 of a new VersionNode
NewNodeId(ns) == Cardinality(DOMAIN ns) + 1

\* Project(...) as constructed by _load_or_create_project
NewProject ==
    [name |-> "Project", description |-> "",
     root_node_id |-> NoId, current_node_id |-> NoId,
     node_ids |-> <<>>, branches |-> <<>>]

\* faulty variant: the branches of the file are not taken over
Project_from_dict_NoBranches(d) ==
    [name |-> d.name, description |-> d.description,
     root_node_id |-> d.root_node_id, current_node_id |-> d.current_node_id,
     node_ids |-> d.node_ids, branches |-> <<>>]

\* Project.from_dict: the object built from the keys of project.json
Project_from_dict(d) ==
    [name |-> d.name, description |-> d.description,
     root_node_id |-> d.root_node_id, current_node_id |-> d.current_node_id,
     node_ids |-> d.node_ids, branches |-> d.branches]

\* Project.to_dict: the keys written to project.json
Project_to_dict(p) ==
    [name |-> p.name, description |-> p.description,
     root_node_id |-> p.root_node_id, current_node_id |-> p.current_node_id,
     node_ids |-> p.node_ids, branches |-> p.branches]

\* the second handle has not been constructed
Unopened == [name |-> "unopened", description |-> "",
             root_node_id |-> NoId, current_node_id |-> NoId,
             node_ids |-> <<>>, branches |-> <<>>]

NoCall == [op |-> "none", arg_node |-> NoId, arg_branch |-> "none",
           outcome |-> "none", ret |-> NoId]

IdleWalk == [pc |-> "idle", start |-> NoId, current |-> NoId,
             history |-> <<>>, result |-> <<>>]

\* no call is running
NoNode == [id |-> NoId, parent_id |-> NoId, branch_name |-> "none",
           stage |-> "none", stage_index |-> 0,
           artifact_path |-> NoArtifact, status |-> PENDING,
           input_hash |-> NoHash]

NoArgs == [node_id |-> NoId, branch_name |-> "none", stage |-> "none",
           stage_index |-> 0, input_hash |-> NoHash,
           artifact_type |-> "none", data |-> <<>>,
           preview_data |-> NoPreview, ref |-> NoArtifact]

IdleCall == [op |-> "none", pc |-> "idle", args |-> NoArgs, node |-> NoNode,
             artifact_id |-> NoArtifact, nodes0 |-> <<>>, artifacts0 |-> <<>>,
             project_file0 |-> Project_to_dict(NewProject), n |-> 0]

----------------------------------------------------------------------------
(* Operations of ArtifactStore *)

Init ==
    /\ nodes = <<>>
    /\ artifacts = <<>>
    /\ project = NewProject
    /\ project_file = Project_to_dict(NewProject)
    /\ meta_count = 0
    /\ last = NoCall
    /\ walk = IdleWalk
    /\ call = IdleCall
    /\ other = Unopened

\* faulty variants of the project updates, used to test the properties
NodeCreated_ResetsRoot(p, id, branch_name) ==
    [p EXCEPT
        !.node_ids = Append(@, id),
        !.root_node_id = id,
        !.current_node_id = id,
        !.branches = Put(@, branch_name, id)]

NodeCreated_KeepsCurrent(p, id, branch_name) ==
    [p EXCEPT
        !.node_ids = Append(@, id),
        !.root_node_id = IF @ = NoId THEN id ELSE @,
        !.branches = Put(@, branch_name, id)]

NodeCreated_Prepends(p, id, branch_name) ==
    [p EXCEPT
        !.node_ids = <<id>> \o @,
        !.root_node_id = IF @ = NoId THEN id ELSE @,
        !.current_node_id = id,
        !.branches = Put(@, branch_name, id)]

BranchCreated_Unlisted(p, id, branch_name) ==
    [p EXCEPT !.branches = Put(@, branch_name, id)]

BranchCreated_MovesAll(p, id, branch_name) ==
    [p EXCEPT
        !.node_ids = Append(@, id),
        !.branches = [b \in DOMAIN @ \cup {branch_name} |-> id]]

BranchCreated_MovesHead(p, id, branch_name) ==
    [p EXCEPT
        !.node_ids = Append(@, id),
        !.current_node_id = id,
        !.branches = Put(@, branch_name, id)]

\* create_node's update of self.project
NodeCreated(p, id, branch_name) ==
    [p EXCEPT
        !.node_ids = Append(@, id),
        !.root_node_id = IF @ = NoId THEN id ELSE @,
        !.current_node_id = id,
        !.branches = Put(@, branch_name, id)]

\* create_branch's update of self.project
BranchCreated(p, id, branch_name) ==
    [p EXCEPT
        !.node_ids = Append(@, id),
        !.branches = Put(@, branch_name, id)]

create_node(stage, stage_index, parent_id, branch_name, input_hash) ==
    /\ Cardinality(DOMAIN nodes) < MaxNodes
    /\ LET id == NewNodeId(nodes)
           node == [id |-> id, parent_id |-> parent_id,
                    branch_name |-> branch_name,
                    stage |-> stage, stage_index |-> stage_index,
                    artifact_path |-> NoArtifact, status |-> PENDING,
                    input_hash |-> input_hash]
           p == NodeCreated(project, id, branch_name)
       IN  /\ nodes' = Put(nodes, id, node)
           /\ project' = p
           /\ project_file' = Project_to_dict(p)
           /\ last' = [op |-> "create_node", arg_node |-> parent_id,
                       arg_branch |-> branch_name,
                       outcome |-> "ok", ret |-> id]
    /\ UNCHANGED <<artifacts, meta_count, walk, call, other>>

\* save_artifact's update of the node it read back
ArtifactSaved_KeepsStatus(node, artifact_id) ==
    [node EXCEPT !.artifact_path = artifact_id]

ArtifactSaved(node, artifact_id) ==
    [node EXCEPT !.artifact_path = artifact_id, !.status = COMPLETED]

\* _save_node(node) for a node read back by get_node and modified
save_node(ns, node) == Put(ns, node.id, node)

save_artifact(node_id, stage, artifact_type, data, preview_data) ==
    /\ meta_count < MaxSaves
    /\ LET artifact_id == ArtifactId(stage, artifact_type, data)
           old_preview == IF artifact_id \in DOMAIN artifacts
                          THEN artifacts[artifact_id].preview ELSE NoPreview
           metadata == [id |-> meta_count + 1, node_id |-> node_id,
                        stage |-> stage, artifact_type |-> artifact_type,
                        file_path |-> artifact_id,
                        preview_path |-> IF preview_data # NoPreview
                                         THEN artifact_id ELSE NoArtifact]
           bundle == [data |-> data,
                      preview |-> IF preview_data # NoPreview
                                  THEN preview_data ELSE old_preview,
                      meta |-> metadata]
       IN  /\ artifacts' = Put(artifacts, artifact_id, bundle)
           /\ meta_count' = meta_count + 1
           /\ nodes' = IF NodeExists(nodes, node_id)
                       THEN save_node(nodes,
                                ArtifactSaved(nodes[node_id], artifact_id))
                       ELSE nodes
           /\ last' = [op |-> "save_artifact", arg_node |-> node_id,
                       arg_branch |-> "none",
                       outcome |-> "ok", ret |-> meta_count + 1]
    /\ UNCHANGED <<project, project_file, walk, call, other>>

\* the VersionNode create_branch builds from from_node
BranchNode_Pending(from_node, id, branch_name) ==
    [id |-> id, parent_id |-> from_node.id, branch_name |-> branch_name,
     stage |-> from_node.stage, stage_index |-> from_node.stage_index,
     artifact_path |-> NoArtifact, status |-> PENDING,
     input_hash |-> from_node.input_hash]

BranchNode_NoArtifact(from_node, id, branch_name) ==
    [id |-> id, parent_id |-> from_node.id, branch_name |-> branch_name,
     stage |-> from_node.stage, stage_index |-> from_node.stage_index,
     artifact_path |-> NoArtifact, status |-> from_node.status,
     input_hash |-> from_node.input_hash]

BranchNode_SourceBranch(from_node, id, branch_name) ==
    [id |-> id, parent_id |-> from_node.id,
     branch_name |-> from_node.branch_name,
     stage |-> from_node.stage, stage_index |-> from_node.stage_index,
     artifact_path |-> from_node.artifact_path, status |-> from_node.status,
     input_hash |-> from_node.input_hash]

BranchNode(from_node, id, branch_name) ==
    [id |-> id, parent_id |-> from_node.id, branch_name |-> branch_name,
     stage |-> from_node.stage, stage_index |-> from_node.stage_index,
     artifact_path |-> from_node.artifact_path, status |-> from_node.status,
     input_hash |-> from_node.input_hash]

create_branch(from_node_id, branch_name) ==
    IF ~NodeExists(nodes, from_node_id)
    THEN \* raise ValueError
         /\ last' = [op |-> "create_branch", arg_node |-> from_node_id,
                     arg_branch |-> branch_name,
                     outcome |-> "ValueError", ret |-> NoId]
         /\ UNCHANGED <<nodes, artifacts, project, project_file,
                        meta_count, walk, call, other>>
    ELSE /\ Cardinality(DOMAIN nodes) < MaxNodes
         /\ LET from_node == nodes[from_node_id]
                id == NewNodeId(nodes)
                new_node == BranchNode(from_node, id, branch_name)
                p == BranchCreated(project, id, branch_name)
            IN  /\ nodes' = Put(nodes, id, new_node)
                /\ project' = p
                /\ project_file' = Project_to_dict(p)
                /\ last' = [op |-> "create_branch",
                            arg_node |-> from_node_id,
                            arg_branch |-> branch_name,
                            outcome |-> "ok", ret |-> id]
         /\ UNCHANGED <<artifacts, meta_count, walk, call, other>>

save_project_metadata(name, description) ==
    /\ LET p == [project EXCEPT !.name = name, !.description = description]
       IN  /\ project' = p
           /\ project_file' = Project_to_dict(p)
    /\ last' = [op |-> "save_project_metadata", arg_node |-> NoId,
                arg_branch |-> "none", outcome |-> "ok", ret |-> NoId]
    /\ UNCHANGED <<nodes, artifacts, meta_count, walk, call, other>>

CreateNode ==
    \E si \in StageInputs, parent_id \in DOMAIN nodes \cup {NoId, GhostId},
       branch_name \in BranchNames :
        create_node(si[1], si[2], parent_id, branch_name, si[3])

SaveArtifact ==
    \E node_id \in DOMAIN nodes \cup {GhostId}, sv \in SaveInputs :
        save_artifact(node_id, sv[1], sv[2], sv[3], sv[4])

CreateBranch ==
    \E from_node_id \in DOMAIN nodes \cup {GhostId},
       branch_name \in BranchNames :
        create_branch(from_node_id, branch_name)

SaveProjectMetadata ==
    \E name \in ProjectNames : save_project_metadata(name, "")

Next ==
    \/ CreateNode
    \/ SaveArtifact
    \/ CreateBranch
    \/ SaveProjectMetadata

Spec == Init /\ [][Next]_vars

----------------------------------------------------------------------------
(* get_node_history *)

\* get_node(node_id) as the walk holds it: the id, or None
get_node(ns, id) == IF NodeExists(ns, id) THEN id ELSE NoId

\* the list `history` after the while loop, started with current = id;
\* defined on stores whose parent chains end
RECURSIVE WalkUp(_, _)
WalkUp(ns, id) ==
    IF ~NodeExists(ns, id) THEN <<>>
    ELSE IF ns[id].parent_id # NoId
         THEN <<id>> \o WalkUp(ns, ns[id].parent_id)
         ELSE <<id>>

\* get_node_history(node_id): the ids of the returned nodes, root first
get_node_history(ns, id) == Reverse(WalkUp(ns, id))

NoBranch == ""              \* branch_name = None

\* faulty variant: the history of a branch is returned head first
list_nodes_HeadFirst(ns, p, branch_name) ==
    IF branch_name # NoBranch
    THEN IF branch_name \notin DOMAIN p.branches THEN <<>>
         ELSE WalkUp(ns, p.branches[branch_name])
    ELSE SelectSeq(p.node_ids, LAMBDA id : NodeExists(ns, id))

\* list_nodes(branch_name): the ids of the returned nodes
list_nodes(ns, p, branch_name) ==
    IF branch_name # NoBranch
    THEN IF \/ branch_name \notin DOMAIN p.branches
            \/ p.branches[branch_name] = NoId
         THEN <<>>
         ELSE get_node_history(ns, p.branches[branch_name])
    ELSE SelectSeq(p.node_ids, LAMBDA id : NodeExists(ns, id))

\* the same call one loop iteration at a time
HistoryStart(node_id) ==
    /\ walk.pc = "idle"
    /\ walk' = [pc |-> "loop", start |-> node_id,
                current |-> get_node(nodes, node_id),
                history |-> <<>>, result |-> <<>>]
    /\ UNCHANGED <<nodes, artifacts, project, project_file, meta_count, last,
                   call, other>>

HistoryLoop ==
    /\ walk.pc = "loop"
    /\ IF walk.current # NoId
       THEN /\ Len(walk.history) < MaxWalk
            /\ LET parent_id == nodes[walk.current].parent_id
               IN  walk' = [walk EXCEPT
                       !.history = Append(@, walk.current),
                       !.current = IF parent_id # NoId
                                   THEN get_node(nodes, parent_id) ELSE @,
                       !.pc = IF parent_id # NoId THEN "loop" ELSE "return"]
       ELSE walk' = [walk EXCEPT !.pc = "return"]
    /\ UNCHANGED <<nodes, artifacts, project, project_file, meta_count, last,
                   call, other>>

HistoryReturn ==
    /\ walk.pc = "return"
    /\ walk' = [walk EXCEPT !.pc = "idle", !.current = NoId,
                            !.history = <<>>,
                            !.result = Reverse(walk.history)]
    /\ UNCHANGED <<nodes, artifacts, project, project_file, meta_count, last,
                   call, other>>

\* a store whose node records were written by something other than the
\* operations above: every parent_id is arbitrary
CorruptIds == 1..CorruptNodes

CorruptNode(id, parent_id) ==
    [id |-> id, parent_id |-> parent_id, branch_name |-> "main",
     stage |-> "script", stage_index |-> 1,
     artifact_path |-> NoArtifact, status |-> PENDING, input_hash |-> NoHash]

CorruptProject ==
    [NewProject EXCEPT
        !.root_node_id = 1,
        !.current_node_id = CorruptNodes,
        !.node_ids = [i \in CorruptIds |-> i],
        !.branches = [b \in {"main"} |-> CorruptNodes]]

InitCorrupt ==
    /\ \E parents \in [CorruptIds -> CorruptIds \cup {NoId}] :
            nodes = [i \in CorruptIds |-> CorruptNode(i, parents[i])]
    /\ artifacts = <<>>
    /\ project = CorruptProject
    /\ project_file = CorruptProject
    /\ meta_count = 0
    /\ last = NoCall
    /\ walk = IdleWalk
    /\ call = IdleCall
    /\ other = Unopened

GetNodeHistory ==
    \E node_id \in CorruptIds \cup {GhostId} : HistoryStart(node_id)

NextCorrupt ==
    \/ GetNodeHistory
    \/ HistoryLoop
    \/ HistoryReturn

SpecCorrupt == InitCorrupt /\ [][NextCorrupt]_vars

----------------------------------------------------------------------------
(* The write calls and get_artifact one file operation at a time, with       *)
(* write failures and process crashes.  save_artifact writes a JSON file in  *)
(* two steps, as open(file, "w") and json.dump do: the open empties the      *)
(* file, the dump fills it.  Either step can raise: a failing open leaves    *)
(* the file as it was, a failing dump leaves it empty.  The write of the     *)
(* node record at the end of save_artifact and the two writes of create_node *)
(* are not made to fail, except that _save_project can raise before it       *)
(* changes project.json.  A crash ends the process between two file          *)
(* operations and a new ArtifactStore is then opened on the same project.    *)

\* an artifact directory without meta.json / without data.json
NoMeta == [id |-> NoId, node_id |-> NoId, stage |-> "none",
           artifact_type |-> "none", file_path |-> NoArtifact,
           preview_path |-> NoArtifact]
NoData == <<>>
EmptyBundle == [data |-> NoData, preview |-> NoPreview, meta |-> NoMeta]

\* a file that was opened for writing and not filled: json.load of it raises
Truncated == << <<"truncated", <<"int", 0>> >> >>
TornMeta == [NoMeta EXCEPT !.stage = "truncated"]
TornNode(id) == [NoNode EXCEPT !.id = id, !.status = "truncated"]
IsTorn(node) == node.status = "truncated"

\* what artifacts_dir / artifact_id holds
Bundle(arts, a) == IF a \in DOMAIN arts THEN arts[a] ELSE EmptyBundle

\* ArtifactMetadata(...) as save_artifact constructs it
Metadata(id, node_id, stage, artifact_type, artifact_id, preview_data) ==
    [id |-> id, node_id |-> node_id, stage |-> stage,
     artifact_type |-> artifact_type, file_path |-> artifact_id,
     preview_path |-> IF preview_data # NoPreview
                      THEN artifact_id ELSE NoArtifact]

\* faulty variant: only data.json is looked for
BundleReadable_DataOnly(arts, ref) == Bundle(arts, ref).data # NoData

\* get_artifact's test that data.json and meta.json exist
BundleReadable(arts, ref) ==
    /\ Bundle(arts, ref).data # NoData
    /\ Bundle(arts, ref).meta # NoMeta

Begin(op, pc, args) ==
    /\ call.pc = "idle"
    /\ call.n < MaxCalls
    /\ call' = [IdleCall EXCEPT !.op = op, !.pc = pc, !.args = args,
                                !.n = call.n + 1, !.nodes0 = nodes,
                                !.artifacts0 = artifacts,
                                !.project_file0 = project_file]

\* the call returns ret
Return(ret) ==
    /\ last' = [op |-> call.op, arg_node |-> call.args.node_id,
                arg_branch |-> call.args.branch_name,
                outcome |-> "ok", ret |-> ret]
    /\ call' = [IdleCall EXCEPT !.n = call.n]

\* the call raises exc
Raise(exc) ==
    /\ last' = [op |-> call.op, arg_node |-> call.args.node_id,
                arg_branch |-> call.args.branch_name,
                outcome |-> exc, ret |-> NoId]
    /\ call' = [IdleCall EXCEPT !.n = call.n]

At(op, pc) == call.op = op /\ call.pc = pc

Goto(pc) == call' = [call EXCEPT !.pc = pc]

\* create_node is called
StepCreateNode ==
    \E si \in StageInputs, parent_id \in DOMAIN nodes \cup {NoId},
       branch_name \in BranchNames :
        /\ Begin("create_node", "new_node",
                 [NoArgs EXCEPT !.stage = si[1], !.stage_index = si[2],
                                !.input_hash = si[3], !.node_id = parent_id,
                                !.branch_name = branch_name])
        /\ UNCHANGED <<nodes, artifacts, project, project_file, meta_count,
                       last, walk, other>>

\* lines 157-166: node = VersionNode(...)
cn_new_node ==
    /\ At("create_node", "new_node")
    /\ call' = [call EXCEPT
            !.pc = "save_node",
            !.node = [id |-> NewNodeId(nodes),
                      parent_id |-> call.args.node_id,
                      branch_name |-> call.args.branch_name,
                      stage |-> call.args.stage,
                      stage_index |-> call.args.stage_index,
                      artifact_path |-> NoArtifact, status |-> PENDING,
                      input_hash |-> call.args.input_hash]]
    /\ UNCHANGED <<nodes, artifacts, project, project_file, meta_count,
                   last, walk, other>>

\* line 169: self._save_node(node)
cn_save_node ==
    /\ At("create_node", "save_node")
    /\ nodes' = save_node(nodes, call.node)
    /\ Goto("update_project")
    /\ UNCHANGED <<artifacts, project, project_file, meta_count, last, walk, other>>

\* lines 172-176: self.project is updated in memory
cn_update_project ==
    /\ At("create_node", "update_project")
    /\ project' = NodeCreated(project, call.node.id, call.args.branch_name)
    /\ Goto("save_project")
    /\ UNCHANGED <<nodes, artifacts, project_file, meta_count, last, walk, other>>

\* lines 177-179: self._save_project(self.project); return node
cn_save_project ==
    /\ At("create_node", "save_project")
    /\ \/ /\ project_file' = Project_to_dict(project)
          /\ Return(call.node.id)
       \/ /\ project_file' = project_file
          /\ Raise("OSError")
    /\ UNCHANGED <<nodes, artifacts, project, meta_count, walk, other>>

\* save_artifact is called
StepSaveArtifact ==
    \E node_id \in DOMAIN nodes \cup {GhostId}, sv \in SaveInputs :
        /\ Begin("save_artifact", "hash",
                 [NoArgs EXCEPT !.node_id = node_id, !.stage = sv[1],
                                !.artifact_type = sv[2], !.data = sv[3],
                                !.preview_data = sv[4]])
        /\ UNCHANGED <<nodes, artifacts, project, project_file, meta_count,
                       last, walk, other>>

\* lines 270-273: the content hash and the artifact id, or json.dumps raises
sa_hash ==
    /\ At("save_artifact", "hash")
    /\ \/ /\ call' = [call EXCEPT
                    !.pc = "open_data",
                    !.artifact_id = ArtifactId(call.args.stage,
                                               call.args.artifact_type,
                                               call.args.data)]
          /\ UNCHANGED last
       \/ Raise("ValueError")
    /\ UNCHANGED <<nodes, artifacts, project, project_file, meta_count, walk, other>>

\* lines 275-280: the directory is made and data.json opened for writing,
\* or the open raises
sa_open_data ==
    /\ At("save_artifact", "open_data")
    /\ \/ /\ artifacts' = Put(artifacts, call.artifact_id,
                    [Bundle(artifacts, call.artifact_id) EXCEPT
                        !.data = Truncated])
          /\ Goto("write_data")
          /\ UNCHANGED last
       \/ /\ artifacts' = Put(artifacts, call.artifact_id,
                               Bundle(artifacts, call.artifact_id))
          /\ Raise("OSError")
    /\ UNCHANGED <<nodes, project, project_file, meta_count, walk, other>>

\* faulty variant: the node is marked before the bundle is complete
sa_write_data_MarksNode ==
    /\ At("save_artifact", "write_data")
    /\ nodes' = IF NodeExists(nodes, call.args.node_id)
                THEN save_node(nodes, ArtifactSaved(nodes[call.args.node_id],
                                                    call.artifact_id))
                ELSE nodes
    /\ \/ /\ artifacts' = Put(artifacts, call.artifact_id,
                    [Bundle(artifacts, call.artifact_id) EXCEPT
                        !.data = call.args.data])
          /\ Goto("write_preview")
          /\ UNCHANGED last
       \/ /\ artifacts' = Put(artifacts, call.artifact_id,
                               Bundle(artifacts, call.artifact_id))
          /\ Raise("OSError")
    /\ UNCHANGED <<project, project_file, meta_count, walk, other>>

\* lines 281-286: json.dump fills data.json, or raises and leaves it empty
sa_write_data ==
    /\ At("save_artifact", "write_data")
    /\ \/ /\ artifacts' = Put(artifacts, call.artifact_id,
                    [Bundle(artifacts, call.artifact_id) EXCEPT
                        !.data = call.args.data])
          /\ Goto("write_preview")
          /\ UNCHANGED last
       \/ /\ artifacts' = Put(artifacts, call.artifact_id,
                               Bundle(artifacts, call.artifact_id))
          /\ Raise("OSError")
    /\ UNCHANGED <<nodes, project, project_file, meta_count, walk, other>>

\* lines 289-293: preview.png is written when preview_data is given
sa_write_preview ==
    /\ At("save_artifact", "write_preview")
    /\ IF call.args.preview_data # NoPreview
       THEN \/ /\ artifacts' = [artifacts EXCEPT ![call.artifact_id].preview
                                    = call.args.preview_data]
               /\ Goto("open_meta")
               /\ UNCHANGED last
            \/ /\ Raise("OSError")
               /\ UNCHANGED artifacts
       ELSE /\ Goto("open_meta")
            /\ UNCHANGED <<artifacts, last>>
    /\ UNCHANGED <<nodes, project, project_file, meta_count, walk, other>>

\* lines 296-309: the metadata is constructed and meta.json opened for
\* writing, or the open raises
sa_open_meta ==
    /\ At("save_artifact", "open_meta")
    /\ meta_count' = meta_count + 1
    /\ \/ /\ artifacts' = [artifacts EXCEPT ![call.artifact_id].meta =
                                                              TornMeta]
          /\ Goto("write_meta")
          /\ UNCHANGED last
       \/ /\ Raise("OSError")
          /\ UNCHANGED artifacts
    /\ UNCHANGED <<nodes, project, project_file, walk, other>>

\* line 310: json.dump fills meta.json, or raises and leaves it empty
sa_write_meta ==
    /\ At("save_artifact", "write_meta")
    /\ \/ /\ artifacts' = [artifacts EXCEPT ![call.artifact_id].meta =
                    Metadata(meta_count, call.args.node_id,
                             call.args.stage, call.args.artifact_type,
                             call.artifact_id, call.args.preview_data)]
          /\ Goto("update_node")
          /\ UNCHANGED last
       \/ /\ Raise("OSError")
          /\ UNCHANGED artifacts
    /\ UNCHANGED <<nodes, project, project_file, meta_count, walk, other>>

\* faulty variant: a node_id that names no record is an error
sa_update_node_RaisesOnMissing ==
    /\ At("save_artifact", "update_node")
    /\ IF ~NodeExists(nodes, call.args.node_id)
       THEN /\ nodes' = nodes
            /\ Raise("ValueError")
       ELSE IF IsTorn(nodes[call.args.node_id])
       THEN /\ nodes' = nodes
            /\ Raise("JSONDecodeError")
       ELSE /\ nodes' = Put(nodes, call.args.node_id,
                            TornNode(call.args.node_id))
            /\ call' = [call EXCEPT !.pc = "save_node",
                                    !.node = nodes[call.args.node_id]]
            /\ UNCHANGED last
    /\ UNCHANGED <<artifacts, project, project_file, meta_count, walk, other>>

\* lines 313-314 and 183-186: the node is read back by get_node; when it
\* exists its file is opened for writing by _save_node, otherwise the
\* metadata is returned at once (line 319)
sa_update_node ==
    /\ At("save_artifact", "update_node")
    /\ IF ~NodeExists(nodes, call.args.node_id)
       THEN /\ nodes' = nodes
            /\ Return(meta_count)
       ELSE IF IsTorn(nodes[call.args.node_id])
       THEN /\ nodes' = nodes
            /\ Raise("JSONDecodeError")
       ELSE /\ nodes' = Put(nodes, call.args.node_id,
                            TornNode(call.args.node_id))
            /\ call' = [call EXCEPT !.pc = "save_node",
                                    !.node = nodes[call.args.node_id]]
            /\ UNCHANGED last
    /\ UNCHANGED <<artifacts, project, project_file, meta_count, walk, other>>

\* lines 315-319 and 187: artifact_path and status are set on the node read
\* back, json.dump fills the node file; return metadata
sa_save_node ==
    /\ At("save_artifact", "save_node")
    /\ nodes' = save_node(nodes, ArtifactSaved(call.node, call.artifact_id))
    /\ Return(meta_count)
    /\ UNCHANGED <<artifacts, project, project_file, meta_count, walk, other>>

\* an artifact path that names no directory
GhostRef == <<"none", "none", <<"sha256", <<>> >> >>

\* get_artifact is called
StepGetArtifact ==
    \E ref \in DOMAIN artifacts \cup {GhostRef} :
        /\ Begin("get_artifact", "check", [NoArgs EXCEPT !.ref = ref])
        /\ UNCHANGED <<nodes, artifacts, project, project_file, meta_count,
                       last, walk, other>>

\* lines 330-335: return None unless data.json and meta.json exist
ga_check ==
    /\ At("get_artifact", "check")
    /\ IF ~BundleReadable(artifacts, call.args.ref)
       THEN Return(NoId)
       ELSE Goto("read") /\ UNCHANGED last
    /\ UNCHANGED <<nodes, artifacts, project, project_file, meta_count, walk, other>>

\* lines 338-346: both files are opened and read; return (data, metadata)
ga_read ==
    /\ At("get_artifact", "read")
    /\ IF \/ Bundle(artifacts, call.args.ref).data = NoData
          \/ Bundle(artifacts, call.args.ref).meta = NoMeta
       THEN Raise("FileNotFoundError")
       ELSE IF \/ Bundle(artifacts, call.args.ref).data = Truncated
               \/ Bundle(artifacts, call.args.ref).meta = TornMeta
       THEN Raise("JSONDecodeError")
       ELSE Return(Bundle(artifacts, call.args.ref).meta.id)
    /\ UNCHANGED <<nodes, artifacts, project, project_file, meta_count, walk, other>>

\* the process ends in the middle of a call
Crash ==
    /\ call.pc \notin {"idle", "crashed"}
    /\ Goto("crashed")
    /\ UNCHANGED <<nodes, artifacts, project, project_file, meta_count,
                   last, walk, other>>

\* lines 62-83, 101-104: a new ArtifactStore loads project.json
Reopen ==
    /\ call.pc = "crashed"
    /\ project' = Project_from_dict(project_file)
    /\ call' = [IdleCall EXCEPT !.n = call.n]
    /\ UNCHANGED <<nodes, artifacts, project_file, meta_count, last, walk, other>>

NextSteps ==
    \/ StepCreateNode
    \/ cn_new_node
    \/ cn_save_node
    \/ cn_update_project
    \/ cn_save_project
    \/ StepSaveArtifact
    \/ sa_hash
    \/ sa_open_data
    \/ sa_write_data
    \/ sa_write_preview
    \/ sa_open_meta
    \/ sa_write_meta
    \/ sa_update_node
    \/ sa_save_node
    \/ StepGetArtifact
    \/ ga_check
    \/ ga_read
    \/ Crash
    \/ Reopen

SpecSteps == Init /\ [][NextSteps]_vars

----------------------------------------------------------------------------
(* Reads of another caller while a write call is running.  A read happens    *)
(* between two file operations of the writer and sees the files as they are  *)
(* at that moment; its outcome is recorded in `last`.  The reads taken are   *)
(* those of nodes that were Completed, and of bundles that were complete,    *)
(* when the write call began.                                                *)

WriteRunning == call.op \in {"create_node", "save_artifact"}
                    /\ call.pc \notin {"idle", "crashed"}

\* data.json and meta.json of the directory hold their dumps
BundleComplete(arts, a) ==
    /\ Bundle(arts, a).data \notin {NoData, Truncated}
    /\ Bundle(arts, a).meta \notin {NoMeta, TornMeta}

WasCompleted(n) ==
    /\ NodeExists(call.nodes0, n)
    /\ call.nodes0[n].status = COMPLETED

ReadResult(op, n, outcome) ==
    /\ last' = [op |-> op, arg_node |-> n, arg_branch |-> "none",
                outcome |-> outcome, ret |-> n]
    /\ UNCHANGED <<nodes, artifacts, project, project_file, meta_count, walk,
                   call, other>>

\* get_node(n): json.load of the node file
ReadNode ==
    /\ WriteRunning
    /\ \E n \in DOMAIN call.nodes0 :
          /\ WasCompleted(n)
          /\ ReadResult("get_node", n,
                        IF IsTorn(nodes[n]) THEN "JSONDecodeError" ELSE "ok")

\* list_nodes(): get_node for every id of node_ids
ReadList ==
    /\ WriteRunning
    /\ project.node_ids # <<>>
    /\ \A i \in 1..Len(project.node_ids) : WasCompleted(project.node_ids[i])
    /\ ReadResult("list_nodes", NoId,
                  IF \E n \in Range(project.node_ids) : IsTorn(nodes[n])
                  THEN "JSONDecodeError" ELSE "ok")

\* get_artifact(path) for the artifact_path of node n
ReadArtifact ==
    /\ WriteRunning
    /\ \E n \in DOMAIN call.nodes0 :
          /\ WasCompleted(n)
          /\ BundleComplete(call.artifacts0, call.nodes0[n].artifact_path)
          /\ ReadResult("get_artifact", n,
                IF ~BundleReadable(artifacts, call.nodes0[n].artifact_path)
                THEN "None"
                ELSE IF ~BundleComplete(artifacts,
                                        call.nodes0[n].artifact_path)
                     THEN "JSONDecodeError" ELSE "ok")

NextReaders ==
    \/ StepCreateNode
    \/ cn_new_node
    \/ cn_save_node
    \/ cn_update_project
    \/ cn_save_project
    \/ StepSaveArtifact
    \/ sa_hash
    \/ sa_open_data
    \/ sa_write_data
    \/ sa_write_preview
    \/ sa_open_meta
    \/ sa_write_meta
    \/ sa_update_node
    \/ sa_save_node
    \/ StepGetArtifact
    \/ ga_check
    \/ ga_read
    \/ Crash
    \/ Reopen
    \/ ReadNode
    \/ ReadList
    \/ ReadArtifact

SpecReaders == Init /\ [][NextReaders]_vars

----------------------------------------------------------------------------
(* Two ArtifactStore handles on one project.  Each handle holds its own      *)
(* Project object, loaded when the handle is constructed.  The calls of the  *)
(* two handles never overlap: `project` is the object of the handle that    *)
(* makes the next call and `other` the object of the handle that waits.     *)

\* (stage, artifact_type, data, preview_data) the two handles save
HandleSaveInputs == { <<"script", "script", DataT, NoPreview>> }

HandleCreateNode ==
    \E si \in StageInputs, parent_id \in DOMAIN nodes \cup {NoId},
       branch_name \in BranchNames :
        create_node(si[1], si[2], parent_id, branch_name, si[3])

HandleSaveArtifact ==
    \E node_id \in DOMAIN nodes, sv \in HandleSaveInputs :
        save_artifact(node_id, sv[1], sv[2], sv[3], sv[4])

HandleCreateBranch ==
    \E from_node_id \in DOMAIN nodes, branch_name \in BranchNames :
        create_branch(from_node_id, branch_name)

\* ArtifactStore(cfg, project_id) for the second handle: project.json exists
\* and is loaded
OpenSecond ==
    /\ other = Unopened
    /\ other' = Project_from_dict(project_file)
    /\ UNCHANGED <<nodes, artifacts, project, project_file, meta_count, last,
                   walk, call>>

\* the handle that waited makes the next calls
PassLock ==
    /\ other # Unopened
    /\ other # project
    /\ project' = other
    /\ other' = project
    /\ UNCHANGED <<nodes, artifacts, project_file, meta_count, last, walk,
                   call>>

NextHandles ==
    \/ HandleCreateNode
    \/ HandleSaveArtifact
    \/ HandleCreateBranch
    \/ SaveProjectMetadata
    \/ OpenSecond
    \/ PassLock

SpecHandles == Init /\ [][NextHandles]_vars

----------------------------------------------------------------------------
(* Properties *)

\* the step is a call of operation op (a repeated failing call that changes
\* nothing is a stuttering step)
Called(op) == last' # last /\ last'.op = op

\* position of id in node_ids, 0 when absent
IndexOf(seq, id) ==
    IF \E i \in 1..Len(seq) : seq[i] = id
    THEN CHOOSE i \in 1..Len(seq) : seq[i] = id
    ELSE 0

NoRepeats(seq) ==
    \A i, j \in 1..Len(seq) : i # j => seq[i] # seq[j]

IsPrefix(a, b) ==
    /\ Len(a) <= Len(b)
    /\ \A i \in 1..Len(a) : a[i] = b[i]

\* C1: every node has parent_id None only if it is the root node, and
\* otherwise its parent_id names a node listed strictly earlier in node_ids.
C1_Forest ==
    \A n \in DOMAIN nodes :
        IF nodes[n].parent_id = NoId
        THEN n = project.root_node_id
        ELSE /\ IndexOf(project.node_ids, nodes[n].parent_id) > 0
             /\ IndexOf(project.node_ids, nodes[n].parent_id)
                    < IndexOf(project.node_ids, n)

\* C2: once a node is Completed or Cached, no step changes its
\* artifact_path.
C2_CompletedImmutable ==
    [][\A n \in DOMAIN nodes :
          nodes[n].status \in {COMPLETED, CACHED}
              => /\ n \in DOMAIN nodes'
                 /\ nodes'[n].artifact_path = nodes[n].artifact_path]_vars

\* C3: create_branch from an existing node with a branch name that is
\* already a key of branches fails with BranchAlreadyExists and leaves
\* branches and node_ids unchanged.
C3_BranchAlreadyExists ==
    [][(/\ Called("create_branch")
        /\ NodeExists(nodes, last'.arg_node)
        /\ last'.arg_branch \in DOMAIN project.branches)
          => /\ last'.outcome = "BranchAlreadyExists"
             /\ project'.branches = project.branches
             /\ project'.node_ids = project.node_ids]_vars

\* C4: create_node with a non-None parent_id that names no node fails with
\* InvalidParent, creates no node record and leaves the project unchanged.
C4_InvalidParent ==
    [][(/\ Called("create_node")
        /\ last'.arg_node # NoId
        /\ ~NodeExists(nodes, last'.arg_node))
          => /\ last'.outcome = "InvalidParent"
             /\ nodes' = nodes
             /\ project' = project]_vars

\* C5: a successful create_node persists exactly one new node with a fresh
\* id, appends the id to node_ids, sets root_node_id only when the project
\* had no root, sets current_node_id and branches[branch_name] to the new id
\* and leaves every other branch entry unchanged.
C5_CreateNodeEffect ==
    [][(Called("create_node") /\ last'.outcome = "ok")
          => LET id == last'.ret
                 b == last'.arg_branch
             IN  /\ id \notin DOMAIN nodes
                 /\ DOMAIN nodes' = DOMAIN nodes \cup {id}
                 /\ \A n \in DOMAIN nodes : nodes'[n] = nodes[n]
                 /\ nodes'[id].id = id
                 /\ nodes'[id].parent_id = last'.arg_node
                 /\ nodes'[id].branch_name = b
                 /\ project'.node_ids = Append(project.node_ids, id)
                 /\ project'.root_node_id =
                        IF project.root_node_id = NoId
                        THEN id ELSE project.root_node_id
                 /\ project'.current_node_id = id
                 /\ DOMAIN project'.branches = DOMAIN project.branches \cup {b}
                 /\ project'.branches[b] = id
                 /\ \A o \in DOMAIN project.branches \ {b} :
                        project'.branches[o] = project.branches[o]
                 /\ project_file' = project']_vars

\* a second node was created on another branch of a project that had a root
C5_Witness ==
    /\ last.op = "create_node"
    /\ last.outcome = "ok"
    /\ last.ret = 2
    /\ project.root_node_id = 1
    /\ project.current_node_id = 2
    /\ DOMAIN project.branches = {"main", "alt"}
    /\ project.branches[last.arg_branch] = 2

\* C6: every value in branches is the id of a node that is listed in
\* node_ids and whose node record exists.
C6_BranchesResolve ==
    \A b \in DOMAIN project.branches :
        /\ project.branches[b] \in Range(project.node_ids)
        /\ NodeExists(nodes, project.branches[b])

\* two branches point at two nodes, the second made by create_branch
C6_Witness ==
    /\ DOMAIN project.branches = {"main", "alt"}
    /\ project.branches["main"] # project.branches["alt"]
    /\ last.op = "create_branch"
    /\ last.outcome = "ok"

\* C7 as claimed: current_node_id names an existing node record in every
\* state, from the creation of the project record on.
C7_CurrentAlwaysResolves ==
    NodeExists(nodes, project.current_node_id)

\* C7 amended: current_node_id names an existing node record whenever the
\* project has a node; while node_ids is empty it is the empty string.
C7_CurrentResolves ==
    IF project.node_ids = <<>>
    THEN project.current_node_id = NoId
    ELSE /\ NodeExists(nodes, project.current_node_id)
         /\ project.current_node_id \in Range(project.node_ids)

\* the current node is not the newest node: a branch was made after it
C7_Witness ==
    /\ Len(project.node_ids) = 2
    /\ project.current_node_id = 1
    /\ last.op = "create_branch"
    /\ last.outcome = "ok"

\* C8: in every step node_ids before is a prefix of node_ids after, node_ids
\* has no duplicate, and every node record that existed still exists.
C8_AppendOnly ==
    [][/\ IsPrefix(project.node_ids, project'.node_ids)
       /\ NoRepeats(project'.node_ids)
       /\ DOMAIN nodes \subseteq DOMAIN nodes']_vars

\* both creating operations have appended and an artifact was saved
C8_Witness ==
    /\ project.node_ids = <<1, 2>>
    /\ DOMAIN nodes = {1, 2}
    /\ nodes[2].parent_id = 1
    /\ nodes[1].status = COMPLETED
    /\ last.op = "save_artifact"

\* C9: for every branch head h, get_node_history(h) starts with the root
\* node, ends with h, links each element to the one before it by parent_id
\* and repeats no node.
C9_HistoryOfHead ==
    \A b \in DOMAIN project.branches :
        LET h == project.branches[b]
            hist == get_node_history(nodes, h)
        IN  /\ hist # <<>>
            /\ hist[1] = project.root_node_id
            /\ hist[Len(hist)] = h
            /\ \A i \in 2..Len(hist) : nodes[hist[i]].parent_id = hist[i - 1]
            /\ NoRepeats(hist)

\* C10: a get_node_history walk over a store with a parent_id cycle fails
\* with CycleDetected as soon as it meets an id a second time: it never
\* takes the id into its list again and never returns a sequence.
RECURSIVE Follow(_, _, _)
Follow(ns, id, k) ==
    IF ~NodeExists(ns, id) THEN NoId
    ELSE IF k = 0 THEN id
    ELSE IF ns[id].parent_id = NoId THEN NoId
    ELSE Follow(ns, ns[id].parent_id, k - 1)

LeadsIntoCycle(ns, id) == Follow(ns, id, Cardinality(DOMAIN ns)) # NoId

C10_CycleDetected ==
    (walk.pc # "idle" /\ LeadsIntoCycle(nodes, walk.start))
        => /\ NoRepeats(walk.history)
           /\ walk.pc # "return"

\* C11: create_branch from an existing node N with a branch name B that is
\* not yet a key of branches makes branches[B] the id of a new node, appended
\* to node_ids, whose parent_id is N's id and whose stage, stage_index,
\* artifact_path, status and input_hash are N's.
C11_BranchCopiesNode ==
    [][(/\ Called("create_branch")
        /\ NodeExists(nodes, last'.arg_node)
        /\ last'.arg_branch \notin DOMAIN project.branches)
          => LET n == nodes[last'.arg_node]
                 b == last'.arg_branch
                 m == project'.branches[b]
             IN  /\ last'.outcome = "ok"
                 /\ b \in DOMAIN project'.branches
                 /\ m = last'.ret
                 /\ m \notin DOMAIN nodes
                 /\ m \in DOMAIN nodes'
                 /\ project'.node_ids = Append(project.node_ids, m)
                 /\ nodes'[m].parent_id = n.id
                 /\ nodes'[m].stage = n.stage
                 /\ nodes'[m].stage_index = n.stage_index
                 /\ nodes'[m].artifact_path = n.artifact_path
                 /\ nodes'[m].status = n.status
                 /\ nodes'[m].input_hash = n.input_hash
                 /\ (nodes'[m].status = COMPLETED <=> n.status = COMPLETED)]_vars

\* a branch "alt" was forked from a Completed node of "main"
C11_Witness ==
    /\ last.op = "create_branch"
    /\ last.outcome = "ok"
    /\ last.arg_branch = "alt"
    /\ last.arg_node = 1
    /\ project.branches = [b \in {"main", "alt"} |->
                              IF b = "main" THEN 1 ELSE 2]
    /\ nodes[1].status = COMPLETED
    /\ nodes[2].status = COMPLETED
    /\ nodes[2].artifact_path = nodes[1].artifact_path
    /\ nodes[2].artifact_path # NoArtifact

\* C12: a successful create_branch leaves every existing node record
\* unchanged, every branch pointer other than the new one unchanged, and the
\* history of every other branch head unchanged.
C12_BranchKeepsHistory ==
    [][(Called("create_branch") /\ last'.outcome = "ok")
          => /\ \A n \in DOMAIN nodes :
                    n \in DOMAIN nodes' /\ nodes'[n] = nodes[n]
             /\ \A o \in DOMAIN project.branches \ {last'.arg_branch} :
                    /\ o \in DOMAIN project'.branches
                    /\ project'.branches[o] = project.branches[o]
                    /\ get_node_history(nodes', project'.branches[o])
                          = get_node_history(nodes, project.branches[o])]_vars

\* "alt" was forked while "main" existed with its own head and history
C12_Witness ==
    /\ last.op = "create_branch"
    /\ last.outcome = "ok"
    /\ last.arg_branch = "alt"
    /\ DOMAIN project.branches = {"main", "alt"}
    /\ project.branches["main"] = 1
    /\ project.branches["alt"] = 2
    /\ get_node_history(nodes, 1) = <<1>>
    /\ get_node_history(nodes, 2) = <<1, 2>>

\* the artifact bundle written by the save_artifact call of this step
WrittenId ==
    CHOOSE a \in DOMAIN artifacts' : artifacts'[a].meta.id = last'.ret

\* C13: a successful save_artifact on an existing node sets the node's
\* artifact_path to the id derived from stage, artifact_type and the content
\* hash of the data, and its status to Completed.
C13_SaveSetsNode ==
    [][(/\ Called("save_artifact")
        /\ last'.outcome = "ok"
        /\ NodeExists(nodes, last'.arg_node))
          => LET n == last'.arg_node
                 a == WrittenId
                 bundle == artifacts'[a]
             IN  /\ nodes'[n].status = COMPLETED
                 /\ nodes'[n].artifact_path = a
                 /\ a = <<bundle.meta.stage, bundle.meta.artifact_type,
                          <<"sha256", Canonical(bundle.data)>> >>
                 /\ bundle.meta.node_id = n
                 /\ nodes'[n] = [nodes[n] EXCEPT !.status = COMPLETED,
                                                 !.artifact_path = a]]_vars

\* a Pending node became Completed through save_artifact
C13_Witness ==
    /\ last.op = "save_artifact"
    /\ last.outcome = "ok"
    /\ NodeExists(nodes, last.arg_node)
    /\ nodes[last.arg_node].status = COMPLETED
    /\ nodes[last.arg_node].artifact_path \in DOMAIN artifacts
    /\ artifacts[nodes[last.arg_node].artifact_path].meta.id = last.ret

\* a call of op, taken step by step, ends in this step
Ends(op) ==
    /\ call.op = op
    /\ call.pc \notin {"idle", "crashed"}
    /\ call'.pc = "idle"

\* C14: a save_artifact that fails at hashing, at the data write, at the
\* preview write or at the metadata write raises to the caller and leaves
\* the target node's status and artifact_path as they were before the call.
C14_FailedSaveKeepsNode ==
    [][(/\ Ends("save_artifact")
        /\ call.pc \in {"hash", "open_data", "write_data", "write_preview",
                        "open_meta", "write_meta"})
          => /\ last'.op = "save_artifact"
             /\ last'.outcome \in {"ValueError", "OSError"}
             /\ nodes' = call.nodes0
             /\ LET n == call.args.node_id
                IN  NodeExists(call.nodes0, n)
                      => /\ nodes'[n].status = call.nodes0[n].status
                         /\ nodes'[n].artifact_path
                               = call.nodes0[n].artifact_path]_vars

\* a save raised after data.json was written: the bundle has no metadata
\* record and the target node is still Pending
C14_Witness ==
    /\ call.pc = "idle"
    /\ last.op = "save_artifact"
    /\ last.outcome = "OSError"
    /\ NodeExists(nodes, last.arg_node)
    /\ nodes[last.arg_node].status = PENDING
    /\ nodes[last.arg_node].artifact_path = NoArtifact
    /\ \E a \in DOMAIN artifacts :
          /\ artifacts[a].data # NoData
          /\ artifacts[a].meta = NoMeta

\* a mapping as the set of its pairs, nested mappings likewise
RECURSIVE AsSet(_)
AsSet(d) ==
    { <<d[i][1], IF d[i][2][1] = "map"
                 THEN <<"map", AsSet(d[i][2][2])>> ELSE d[i][2]>> :
        i \in 1..Len(d) }

SameContent(b1, b2) ==
    /\ b1.meta.stage = b2.meta.stage
    /\ b1.meta.artifact_type = b2.meta.artifact_type
    /\ AsSet(b1.data) = AsSet(b2.data)

\* C15: save_artifact with data that equals, as a nested mapping, the data of
\* an earlier save_artifact with the same stage and artifact_type, written in
\* another key order, yields the same artifact id and storage location.
C15_KeyOrderIrrelevant ==
    [][(Called("save_artifact") /\ last'.outcome = "ok")
          => LET a == WrittenId
             IN  \A o \in DOMAIN artifacts :
                    SameContent(artifacts[o], artifacts'[a])
                        => /\ o = a
                           /\ artifacts'[a].meta.file_path
                                 = artifacts[o].meta.file_path]_vars

\* the mapping was saved in the order title, scene (the call that carries a
\* preview) and then again in the order scene, title, into one bundle
C15_Witness ==
    /\ last.op = "save_artifact"
    /\ last.ret = 2
    /\ Cardinality(DOMAIN artifacts) = 1
    /\ \E a \in DOMAIN artifacts :
          /\ artifacts[a].data = DataST
          /\ artifacts[a].preview = "png"
          /\ artifacts[a].meta.id = 2

Unrelated(ns, n1, n2) ==
    /\ n1 # n2
    /\ n1 \notin Range(WalkUp(ns, n2))
    /\ n2 \notin Range(WalkUp(ns, n1))

\* C16: when a node saves data identical to the data another node, unrelated
\* by lineage, saved for the same stage and artifact_type, the new metadata
\* reports the storage location of the earlier one, both nodes hold the same
\* artifact_path and the store holds one bundle for that content.
C16_Dedup ==
    [][(/\ Called("save_artifact")
        /\ last'.outcome = "ok"
        /\ NodeExists(nodes, last'.arg_node))
          => LET a == WrittenId
                 n2 == last'.arg_node
             IN  \A o \in DOMAIN artifacts, n1 \in DOMAIN nodes :
                    (/\ Unrelated(nodes, n1, n2)
                     /\ artifacts[o].meta.node_id = n1
                     /\ nodes[n1].artifact_path = o
                     /\ artifacts[o].data = artifacts'[a].data
                     /\ SameContent(artifacts[o], artifacts'[a]))
                        => /\ artifacts'[a].meta.file_path
                                 = artifacts[o].meta.file_path
                           /\ nodes'[n1].artifact_path = nodes'[n2].artifact_path
                           /\ Cardinality({x \in DOMAIN artifacts' :
                                  SameContent(artifacts'[x], artifacts'[a])}) = 1
                           /\ DOMAIN artifacts' = DOMAIN artifacts]_vars

\* two nodes, neither an ancestor of the other, saved the same data (no call
\* carried a preview, so both wrote the mapping in the order scene, title)
C16_Witness ==
    /\ last.op = "save_artifact"
    /\ last.ret = 2
    /\ DOMAIN nodes = {1, 2}
    /\ Unrelated(nodes, 1, 2)
    /\ nodes[1].artifact_path = nodes[2].artifact_path
    /\ nodes[1].status = COMPLETED
    /\ nodes[2].status = COMPLETED
    /\ Cardinality(DOMAIN artifacts) = 1
    /\ \E a \in DOMAIN artifacts :
          /\ nodes[1].artifact_path = a
          /\ artifacts[a].data = DataST
          /\ artifacts[a].preview = NoPreview
          /\ artifacts[a].meta.id = 2
          /\ artifacts[a].meta.node_id = last.arg_node

\* C17: a save_artifact whose derived location already holds content with
\* the same hash writes nothing: the bundle's data and metadata record are
\* the same after the call as before it.
C17_IdempotentWrite ==
    [][(/\ Called("save_artifact")
        /\ WrittenId \in DOMAIN artifacts)
          => artifacts'[WrittenId] = artifacts[WrittenId]]_vars

\* get_artifact ends on a reference that names no complete bundle
GetMissing ==
    /\ Ends("get_artifact")
    /\ \/ Bundle(artifacts, call.args.ref).data = NoData
       \/ Bundle(artifacts, call.args.ref).meta = NoMeta

StoredUnchanged ==
    UNCHANGED <<nodes, artifacts, project, project_file, meta_count>>

ChainTo(ns, seq, h) ==
    /\ seq # <<>>
    /\ seq[Len(seq)] = h
    /\ \A i \in 1..Len(seq) : NodeExists(ns, seq[i])
    /\ \A i \in 2..Len(seq) : ns[seq[i]].parent_id = seq[i - 1]
    /\ ~NodeExists(ns, ns[seq[1]].parent_id)

\* C19: list_nodes(B) for a branch B returns the history of the head of B,
\* first ancestor first; list_nodes() returns one node per entry of node_ids
\* in node_ids order.
C19_ListNodes ==
    /\ \A b \in DOMAIN project.branches :
          /\ list_nodes(nodes, project, b)
                = get_node_history(nodes, project.branches[b])
          /\ ChainTo(nodes, list_nodes(nodes, project, b), project.branches[b])
    /\ list_nodes(nodes, project, NoBranch) = project.node_ids

\* a branch whose head has a parent, in a project of two nodes
C19_Witness ==
    /\ project.node_ids = <<1, 2>>
    /\ "main" \in DOMAIN project.branches
    /\ project.branches["main"] = 2
    /\ nodes[2].parent_id = 1
    /\ list_nodes(nodes, project, "main") = <<1, 2>>
    /\ list_nodes(nodes, project, NoBranch) = <<1, 2>>

\* what is on disk: every node record is listed in project.json and every
\* pointer of project.json names a listed node
DiskConsistent ==
    /\ \A id \in DOMAIN nodes : id \in Range(project_file.node_ids)
    /\ \A b \in DOMAIN project_file.branches :
          project_file.branches[b] \in Range(project_file.node_ids)
    /\ project_file.current_node_id # NoId
          => project_file.current_node_id \in Range(project_file.node_ids)

\* C20: after a crash at any point of create_node the disk holds no node
\* record missing from the on-disk node_ids and no branch or current pointer
\* naming a node missing from the on-disk node_ids.
C20_CrashAtomicCreate ==
    (call.pc = "crashed" /\ call.op = "create_node") => DiskConsistent

\* C26: the parent_id relation over the stored nodes has no cycle, so
\* get_node_history ends for every node id, after at most one loop iteration
\* per stored node, also where a parent_id names no stored node.
C26_HistoryTerminates ==
    \A id \in DOMAIN nodes \cup {GhostId} :
        /\ ~LeadsIntoCycle(nodes, id)
        /\ LET history == get_node_history(nodes, id)
           IN  /\ Len(history) <= Cardinality(DOMAIN nodes)
               /\ NoRepeats(history)

\* node 2 hangs under node 1, whose parent_id names no stored node
C26_Witness ==
    /\ DOMAIN nodes = {1, 2}
    /\ nodes[1].parent_id = GhostId
    /\ nodes[2].parent_id = 1
    /\ get_node_history(nodes, 2) = <<1, 2>>

\* C27: a stored node has status Completed exactly when its artifact_path
\* is set.
C27_CompletedIffArtifact ==
    \A n \in DOMAIN nodes :
        nodes[n].status = COMPLETED <=> nodes[n].artifact_path # NoArtifact

\* a Pending node, a node completed by save_artifact and a branch node that
\* took both fields over from it
C27_Witness ==
    /\ DOMAIN nodes = {1, 2}
    /\ last.op = "create_branch"
    /\ last.outcome = "ok"
    /\ nodes[1].status = COMPLETED
    /\ nodes[2].parent_id = 1
    /\ nodes[2].status = COMPLETED
    /\ nodes[2].artifact_path = nodes[1].artifact_path

\* C28: a save_artifact whose node_id names no stored node and whose writes
\* all succeed returns the metadata: the bundle holds the data and a
\* metadata record carrying that node_id, and no node record and no field
\* of the project record changes.
C28_SaveForMissingNode ==
    [][(/\ Ends("save_artifact")
        /\ call.pc = "update_node"
        /\ ~NodeExists(nodes, call.args.node_id))
          => /\ last'.op = "save_artifact"
             /\ last'.outcome = "ok"
             /\ call.artifact_id \in DOMAIN artifacts'
             /\ artifacts'[call.artifact_id].data = call.args.data
             /\ artifacts'[call.artifact_id].meta.id = last'.ret
             /\ artifacts'[call.artifact_id].meta.node_id = call.args.node_id
             /\ nodes' = call.nodes0
             /\ project' = project
             /\ project_file' = project_file]_vars

\* a save for a node_id without a record returned its metadata
C28_Witness ==
    /\ call.pc = "idle"
    /\ last.op = "save_artifact"
    /\ last.outcome = "ok"
    /\ last.arg_node = GhostId
    /\ \E a \in DOMAIN artifacts :
          /\ artifacts[a].meta.id = last.ret
          /\ artifacts[a].meta.node_id = GhostId
          /\ artifacts[a].data # NoData

\* C29: a successful create_branch leaves current_node_id and root_node_id
\* as they were, so HEAD is not the new node; a create_branch from a node
\* that is not stored raises and leaves the node records, node_ids, branches
\* and current_node_id as they were.
C29_BranchKeepsHead ==
    [][Called("create_branch")
          => IF last'.outcome = "ok"
             THEN /\ project'.current_node_id = project.current_node_id
                  /\ project'.root_node_id = project.root_node_id
                  /\ project'.current_node_id # last'.ret
                  /\ project_file'.current_node_id
                        = project_file.current_node_id
                  /\ project_file'.root_node_id = project_file.root_node_id
             ELSE /\ ~NodeExists(nodes, last'.arg_node)
                  /\ last'.outcome = "ValueError"
                  /\ UNCHANGED <<nodes, artifacts, project, project_file>>]_vars

\* a branch was created from node 1 and HEAD stayed on node 1
C29_Witness ==
    /\ last.op = "create_branch"
    /\ last.outcome = "ok"
    /\ last.ret = 2
    /\ project.branches[last.arg_branch] = 2
    /\ project.current_node_id = 1
    /\ project.root_node_id = 1

\* C30: for every branch name B of branches, the head branches[B] is a node
\* with branch_name B and is the node created last among the nodes with
\* branch_name B.
C30_HeadIsLatestOfBranch ==
    \A b \in DOMAIN project.branches :
        LET h == project.branches[b]
        IN  /\ NodeExists(nodes, h)
            /\ nodes[h].branch_name = b
            /\ \A n \in DOMAIN nodes :
                  nodes[n].branch_name = b
                    => IndexOf(project.node_ids, n)
                          <= IndexOf(project.node_ids, h)

\* two branches, one made by create_node and one by create_branch
C30_Witness ==
    /\ DOMAIN project.branches = BranchNames
    /\ last.op = "create_branch"
    /\ last.outcome = "ok"
    /\ project.branches[last.arg_branch] = last.ret
    /\ nodes[last.ret].branch_name = last.arg_branch
    /\ \E n \in DOMAIN nodes : nodes[n].branch_name # last.arg_branch

\* the node created last with branch name b
LastCreated(ns, b) ==
    CHOOSE n \in DOMAIN ns :
        /\ ns[n].branch_name = b
        /\ \A m \in DOMAIN ns : ns[m].branch_name = b => m <= n

\* C23: with two handles whose write calls never overlap, no update is
\* lost: project.json lists the id of every node either handle created and
\* holds every branch name either handle set, pointing at the node created
\* last for that name.
C23_NoLostUpdate ==
    /\ \A n \in DOMAIN nodes : n \in Range(project_file.node_ids)
    /\ \A n \in DOMAIN nodes :
          /\ nodes[n].branch_name \in DOMAIN project_file.branches
          /\ project_file.branches[nodes[n].branch_name]
                = LastCreated(nodes, nodes[n].branch_name)

\* C25: a new ArtifactStore opened on the project after any sequence of
\* completed calls of the first handle loads a project whose root_node_id,
\* current_node_id, node_ids and branches equal those the first handle
\* holds, and every id of node_ids has its node record.
C25_ReopenEquivalence ==
    [][(other = Unopened /\ other' # Unopened)
          => /\ other'.root_node_id = project.root_node_id
             /\ other'.current_node_id = project.current_node_id
             /\ other'.node_ids = project.node_ids
             /\ other'.branches = project.branches
             /\ \A i \in 1..Len(other'.node_ids) :
                   /\ NodeExists(nodes', other'.node_ids[i])
                   /\ nodes'[other'.node_ids[i]].id = other'.node_ids[i]]_vars

\* the second handle was opened after the first had created a node, made a
\* branch from it, saved an artifact and renamed the project
C25_Witness ==
    /\ other # Unopened
    /\ other = project
    /\ other.name \in ProjectNames
    /\ other.node_ids = <<1, 2>>
    /\ DOMAIN other.branches = BranchNames
    /\ other.current_node_id = 1
    /\ nodes[1].status = COMPLETED

\* the same files in every artifact directory
SameBundles(a1, a2) ==
    \A a \in DOMAIN a1 \cup DOMAIN a2 : Bundle(a1, a) = Bundle(a2, a)

\* C21: a create_node or save_artifact that fails at one of its write steps
\* leaves the node records, the artifact bundles and the project record on
\* disk exactly as they were when the call began.
C21_AllOrNothing ==
    [][(/\ Ends("create_node") \/ Ends("save_artifact")
        /\ last'.outcome # "ok")
          => /\ nodes' = call.nodes0
             /\ SameBundles(artifacts', call.artifacts0)
             /\ project_file' = call.project_file0]_vars

\* C22: no step of a later save_artifact, also of one that fails or is cut
\* short by a crash, changes the data blob or the metadata record of the
\* bundle that a Completed node references.
C22_CompletedBundleIntact ==
    [][\A n \in DOMAIN nodes :
          nodes[n].status = COMPLETED
            => LET a == nodes[n].artifact_path
               IN  /\ AsSet(Bundle(artifacts', a).data)
                         = AsSet(Bundle(artifacts, a).data)
                   /\ Bundle(artifacts', a).meta
                         = Bundle(artifacts, a).meta]_vars

\* the step is a read of another caller during a write call
ReadDone(op) ==
    /\ WriteRunning
    /\ call' = call
    /\ last' # last
    /\ last'.op = op

\* C24: a get_node, list_nodes or get_artifact of another caller at any
\* point of a running write call does not fail and returns, for a node that
\* was Completed and for a bundle that was stored when the write call began,
\* the content it had then.
C24_ReadsUndisturbed ==
    [][/\ ReadDone("get_node")
          => /\ last'.outcome = "ok"
             /\ nodes[last'.arg_node] = call.nodes0[last'.arg_node]
       /\ ReadDone("list_nodes")
          => /\ last'.outcome = "ok"
             /\ \A n \in Range(project.node_ids) :
                   nodes[n] = call.nodes0[n]
       /\ ReadDone("get_artifact")
          => LET a == call.nodes0[last'.arg_node].artifact_path
             IN  /\ last'.outcome = "ok"
                 /\ AsSet(Bundle(artifacts, a).data)
                       = AsSet(Bundle(call.artifacts0, a).data)
                 /\ Bundle(artifacts, a).meta
                       = Bundle(call.artifacts0, a).meta]_vars

====
